---------------------------- MODULE Spec2Model ----------------------------
(***************************************************************************)
(* The CircleCI matrix generator of .circleci/regenerate.py.               *)
(*                                                                         *)
(* Every function of the script is a pure function over strings, lists and *)
(* dicts; each becomes an operator that computes what the Python computes. *)
(* A Python str is a TLA+ string, a list is a sequence, a dict is a        *)
(* function on its keys (a record), and a dict with one entry {k: d} is    *)
(* k :> d.  An optional str argument (filter_branch, which defaults to     *)
(* None) is None == <<>> or <<s>> for the str s.                           *)
(*                                                                         *)
(* The state is the last call made to the script and what it built: the    *)
(* list w (named jobs in unittest_workflows) as it stands at the return    *)
(* statement, before indent() serialises it to YAML text.                  *)
(***************************************************************************)
EXTENDS Naturals, Sequences, FiniteSets, TLC

VARIABLES
    call,    \* the call made: the function's name and its arguments
    w,       \* the list of descriptors the call built (w / jobs in the code)
    tree,    \* the dict a direct call of gen_filter_branch_tree returned
    raised   \* whether the call ended in an exception

vars == <<call, w, tree, raised>>

---------------------------------------------------------------------------
(* Data declarations *)

PYTHON_VERSIONS == <<"3.6", "3.7", "3.8">>

BuildTypes == <<"wheel", "conda">>

BuildOsTypes == <<"linux", "macos", "windows">>

UnittestOsTypes == <<"linux", "windows">>

DeviceTypes == <<"cpu", "gpu">>

None == <<>>

RcTagPattern == "/v[0-9]+(\\.[0-9]+)*-rc[0-9]+/"

---------------------------------------------------------------------------
(* Python primitives the script uses *)

\* bool(x) of an optional str: None and "" are false
Truthy(x) == x # None /\ x[1] # ""

\* a faulty startswith: whole-string equality instead of a prefix test
startswith_exact(s, p) == s = p

\* s.startswith(p)
startswith(s, p) == Len(s) >= Len(p) /\ SubSeq(s, 1, Len(p)) = p

\* x in [...] for a list literal
InList(x, l) == \E i \in 1..Len(l) : l[i] = x

\* w += l0; w += l1; ... over a list of lists
RECURSIVE Extend(_)
Extend(ls) == IF ls = <<>> THEN <<>> ELSE Head(ls) \o Extend(Tail(ls))

---------------------------------------------------------------------------
(* The functions of regenerate.py *)

\* a faulty gen_filter_branch_tree: the tag restriction follows the branches
gen_filter_branch_tree_tags_from_branches(branches) ==
    [branches |-> [only |-> branches], tags |-> [only |-> branches]]

gen_filter_branch_tree(branches) ==
    [branches |-> [only |-> branches], tags |-> [only |-> RcTagPattern]]

\* a faulty build_download_job: the filter is never attached
build_download_job_unfiltered(filter_branch) ==
    << "download_third_parties_nix" :> [name |-> "download_third_parties_nix"] >>

build_download_job(filter_branch) ==
    LET job0 == [name |-> "download_third_parties_nix"]
        job  == IF Truthy(filter_branch)
                THEN job0 @@ [filters |-> gen_filter_branch_tree(filter_branch)]
                ELSE job0
    IN  << "download_third_parties_nix" :> job >>

\* a faulty generate_base_workflow: macos is left out of the nix list
generate_base_workflow_linux_only(base_workflow_name, python_version, filter_branch, os_type, btype) ==
    LET d0 == [name |-> base_workflow_name, python_version |-> python_version]
        d1 == IF InList(os_type, <<"linux">>)
              THEN d0 @@ [requires |-> <<"download_third_parties_nix">>]
              ELSE d0
        d2 == IF Truthy(filter_branch)
              THEN d1 @@ [filters |-> gen_filter_branch_tree(filter_branch)]
              ELSE d1
    IN  ("binary_" \o os_type \o "_" \o btype) :> d2

generate_base_workflow(base_workflow_name, python_version, filter_branch, os_type, btype) ==
    LET d0 == [name |-> base_workflow_name, python_version |-> python_version]
        d1 == IF InList(os_type, <<"linux", "macos">>)
              THEN d0 @@ [requires |-> <<"download_third_parties_nix">>]
              ELSE d0
        d2 == IF Truthy(filter_branch)
              THEN d1 @@ [filters |-> gen_filter_branch_tree(filter_branch)]
              ELSE d1
    IN  ("binary_" \o os_type \o "_" \o btype) :> d2

\* a faulty generate_upload_workflow: the "_upload" suffix is left off the name
generate_upload_workflow_same_name(base_workflow_name, filter_branch, btype) ==
    LET d0 == [name     |-> base_workflow_name,
               context  |-> "org-member",
               requires |-> <<base_workflow_name>>]
        d1 == IF Truthy(filter_branch)
              THEN d0 @@ [filters |-> gen_filter_branch_tree(filter_branch)]
              ELSE d0
    IN  ("binary_" \o btype \o "_upload") :> d1

generate_upload_workflow(base_workflow_name, filter_branch, btype) ==
    LET d0 == [name     |-> base_workflow_name \o "_upload",
               context  |-> "org-member",
               requires |-> <<base_workflow_name>>]
        d1 == IF Truthy(filter_branch)
              THEN d0 @@ [filters |-> gen_filter_branch_tree(filter_branch)]
              ELSE d0
    IN  ("binary_" \o btype \o "_upload") :> d1

\* a faulty generate_smoketest_workflow: it requires the base build, not the upload
generate_smoketest_workflow_requires_base(pydistro, base_workflow_name, filter_branch, python_version, os_type) ==
    LET smoke_suffix == "smoke_test_" \o pydistro
        d0 == [name           |-> base_workflow_name \o "_" \o smoke_suffix,
               requires       |-> <<base_workflow_name>>,
               python_version |-> python_version]
        d1 == IF Truthy(filter_branch)
              THEN d0 @@ [filters |-> gen_filter_branch_tree(filter_branch)]
              ELSE d0
    IN  ("smoke_test_" \o os_type \o "_" \o pydistro) :> d1

generate_smoketest_workflow(pydistro, base_workflow_name, filter_branch, python_version, os_type) ==
    LET required_build_suffix == "_upload"
        required_build_name   == base_workflow_name \o required_build_suffix
        smoke_suffix          == "smoke_test_" \o pydistro
        d0 == [name           |-> base_workflow_name \o "_" \o smoke_suffix,
               requires       |-> <<required_build_name>>,
               python_version |-> python_version]
        d1 == IF Truthy(filter_branch)
              THEN d0 @@ [filters |-> gen_filter_branch_tree(filter_branch)]
              ELSE d0
    IN  ("smoke_test_" \o os_type \o "_" \o pydistro) :> d1

build_workflow_pair(btype, os_type, python_version, filter_branch, prefix, upload) ==
    LET base_workflow_name ==
            prefix \o "binary_" \o os_type \o "_" \o btype \o "_py" \o python_version
        w1 == << generate_base_workflow(base_workflow_name, python_version,
                                        filter_branch, os_type, btype) >>
        is_py3_linux == /\ InList(os_type, <<"linux", "windows">>)
                        /\ ~startswith(python_version, "2.")
        pydistro == IF btype = "wheel" THEN "pip" ELSE "conda"
        w2 == IF upload
              THEN Append(w1, generate_upload_workflow(base_workflow_name,
                                                       filter_branch, btype))
              ELSE w1
        w3 == IF upload /\ filter_branch = <<"nightly">> /\ is_py3_linux
              THEN Append(w2, generate_smoketest_workflow(pydistro, base_workflow_name,
                                          filter_branch, python_version, os_type))
              ELSE w2
    IN  w3

\* a faulty build_workflows: the python version loop misses the last version
build_workflows_short_loop(prefix, upload, filter_branch) ==
    build_download_job(filter_branch) \o
    Extend([b \in 1..Len(BuildTypes) |->
      Extend([o \in 1..Len(BuildOsTypes) |->
        Extend([p \in 1..(Len(PYTHON_VERSIONS) - 1) |->
          build_workflow_pair(BuildTypes[b], BuildOsTypes[o], PYTHON_VERSIONS[p],
                              filter_branch, prefix, upload)])])])

\* a faulty build_workflows: the download job is added after the loops
build_workflows_download_last(prefix, upload, filter_branch) ==
    Extend([b \in 1..Len(BuildTypes) |->
      Extend([o \in 1..Len(BuildOsTypes) |->
        Extend([p \in 1..Len(PYTHON_VERSIONS) |->
          build_workflow_pair(BuildTypes[b], BuildOsTypes[o], PYTHON_VERSIONS[p],
                              filter_branch, prefix, upload)])])])
    \o build_download_job(filter_branch)

build_workflows(prefix, upload, filter_branch) ==
    build_download_job(filter_branch) \o
    Extend([b \in 1..Len(BuildTypes) |->
      Extend([o \in 1..Len(BuildOsTypes) |->
        Extend([p \in 1..Len(PYTHON_VERSIONS) |->
          build_workflow_pair(BuildTypes[b], BuildOsTypes[o], PYTHON_VERSIONS[p],
                              filter_branch, prefix, upload)])])])

\* a faulty test job: the python version is left out of the name
unittest_job_no_version(os_type, device_type, python_version) ==
    LET job0 == [name |-> "unittest_" \o os_type \o "_" \o device_type,
                 python_version |-> python_version]
        job1 == IF device_type = "gpu"
                THEN job0 @@ [filters |-> gen_filter_branch_tree(<<"master", "nightly">>)]
                ELSE job0
        job2 == IF os_type # "windows"
                THEN job1 @@ [requires |-> <<"download_third_parties_nix">>]
                ELSE job1
    IN  ("unittest_" \o os_type \o "_" \o device_type) :> job2

unittest_job(os_type, device_type, python_version) ==
    LET job0 == [name |-> "unittest_" \o os_type \o "_" \o device_type
                            \o "_py" \o python_version,
                 python_version |-> python_version]
        job1 == IF device_type = "gpu"
                THEN job0 @@ [filters |-> gen_filter_branch_tree(<<"master", "nightly">>)]
                ELSE job0
        job2 == IF os_type # "windows"
                THEN job1 @@ [requires |-> <<"download_third_parties_nix">>]
                ELSE job1
    IN  ("unittest_" \o os_type \o "_" \o device_type) :> job2

stylecheck_job(python_version) ==
    "stylecheck" :> [name |-> "stylecheck_py" \o python_version,
                     python_version |-> python_version]

\* the body of the innermost loop; i counts from 0 as enumerate() does
unittest_step(os_type, device_type, i, python_version) ==
    << unittest_job(os_type, device_type, python_version) >> \o
    (IF i = 0 /\ os_type = "linux" /\ device_type = "cpu"
     THEN << stylecheck_job(python_version) >>
     ELSE << >>)

unittest_workflows ==
    build_download_job(None) \o
    Extend([o \in 1..Len(UnittestOsTypes) |->
      Extend([d \in 1..Len(DeviceTypes) |->
        Extend([p \in 1..Len(PYTHON_VERSIONS) |->
          unittest_step(UnittestOsTypes[o], DeviceTypes[d], p - 1,
                        PYTHON_VERSIONS[p])])])])

---------------------------------------------------------------------------
(* The arguments the calls are made with *)

\* the most positional arguments a call of gen_filter_branch_tree passes
MaxBranches == 2

Prefixes == {"", "nightly_"}

BranchNames == {"", "nightly", "master"}

FilterBranches == {None} \cup {<<s>> : s \in BranchNames}

\* the declared dimension values and one value outside each declaration
BTypeArgs == {"wheel", "conda", "egg"}

OsTypeArgs == {"linux", "macos", "windows", "freebsd"}

PythonVersionArgs == {"3.6", "3.7", "3.8", "2.7"}

BranchLists == UNION {[1..n -> BranchNames] : n \in 0..MaxBranches}

---------------------------------------------------------------------------
(* The state machine: one action per callable function of the script *)

Init ==
    /\ call = [fn |-> "none"]
    /\ w = <<>>
    /\ tree = [fn |-> "none"]
    /\ raised = FALSE

CallBuildWorkflows(prefix, upload, filter_branch) ==
    /\ call' = [fn |-> "build_workflows", prefix |-> prefix, upload |-> upload,
                filter_branch |-> filter_branch]
    /\ w' = build_workflows(prefix, upload, filter_branch)
    /\ tree' = [fn |-> "none"]
    /\ raised' = FALSE

CallUnittestWorkflows ==
    /\ call' = [fn |-> "unittest_workflows"]
    /\ w' = unittest_workflows
    /\ tree' = [fn |-> "none"]
    /\ raised' = FALSE

CallBuildWorkflowPair(btype, os_type, python_version, filter_branch, prefix, upload) ==
    /\ call' = [fn |-> "build_workflow_pair", btype |-> btype, os_type |-> os_type,
                python_version |-> python_version, filter_branch |-> filter_branch,
                prefix |-> prefix, upload |-> upload]
    /\ w' = build_workflow_pair(btype, os_type, python_version, filter_branch,
                                prefix, upload)
    /\ tree' = [fn |-> "none"]
    /\ raised' = FALSE

CallGenerateBaseWorkflow(base_workflow_name, python_version, filter_branch, os_type, btype) ==
    /\ call' = [fn |-> "generate_base_workflow",
                base_workflow_name |-> base_workflow_name,
                python_version |-> python_version, filter_branch |-> filter_branch,
                os_type |-> os_type, btype |-> btype]
    /\ w' = << generate_base_workflow(base_workflow_name, python_version,
                                      filter_branch, os_type, btype) >>
    /\ tree' = [fn |-> "none"]
    /\ raised' = FALSE

CallGenFilterBranchTree(branches) ==
    /\ call' = [fn |-> "gen_filter_branch_tree", branches |-> branches]
    /\ w' = <<>>
    /\ tree' = gen_filter_branch_tree(branches)
    /\ raised' = FALSE

Next ==
    \/ \E prefix \in Prefixes, upload \in BOOLEAN, fb \in FilterBranches :
          CallBuildWorkflows(prefix, upload, fb)
    \/ CallUnittestWorkflows
    \/ \E btype \in BTypeArgs, os_type \in OsTypeArgs, pv \in PythonVersionArgs,
          fb \in FilterBranches, prefix \in Prefixes, upload \in BOOLEAN :
          CallBuildWorkflowPair(btype, os_type, pv, fb, prefix, upload)
    \/ \E pv \in PythonVersionArgs, fb \in FilterBranches,
          os_type \in OsTypeArgs, btype \in BTypeArgs :
          CallGenerateBaseWorkflow("binary_" \o os_type \o "_" \o btype \o "_py" \o pv,
                                   pv, fb, os_type, btype)
    \/ \E branches \in BranchLists : CallGenFilterBranchTree(branches)

Spec == Init /\ [][Next]_vars

---------------------------------------------------------------------------
(* Reading a built list *)

\* the one key of a descriptor {key: body}, and its body
JobKey(j) == CHOOSE k \in DOMAIN j : TRUE

Body(j) == j[JobKey(j)]

NameAt(i) == Body(w[i]).name

HasField(i, f) == f \in DOMAIN Body(w[i])

Indices == 1..Len(w)

PackageTypes == {"wheel", "conda"}

OperatingSystems == {"linux", "macos", "windows"}

PyVersions == {PYTHON_VERSIONS[p] : p \in 1..Len(PYTHON_VERSIONS)}

Channels == {"pip", "conda"}

\* the naming rule of the base descriptor of a triple
TripleName(prefix, b, o, v) == prefix \o "binary_" \o o \o "_" \o b \o "_py" \o v

\* where the base descriptors of a triple stand in w
BaseOf(b, o, v) ==
    {i \in Indices : /\ JobKey(w[i]) = "binary_" \o o \o "_" \o b
                     /\ HasField(i, "python_version")
                     /\ Body(w[i]).python_version = v}

IsBase(i) == \E b \in PackageTypes, o \in OperatingSystems :
                 JobKey(w[i]) = "binary_" \o o \o "_" \o b

IsUpload(i) == \E b \in PackageTypes : JobKey(w[i]) = "binary_" \o b \o "_upload"

IsSmoke(i) == \E o \in OperatingSystems, c \in Channels :
                  JobKey(w[i]) = "smoke_test_" \o o \o "_" \o c

IsDownload(i) == JobKey(w[i]) = "download_third_parties_nix"

\* the upload and smoke-test descriptors of a triple, found by the stage suffix
UploadOf(prefix, b, o, v) ==
    {i \in Indices : /\ JobKey(w[i]) = "binary_" \o b \o "_upload"
                     /\ NameAt(i) = TripleName(prefix, b, o, v) \o "_upload"}

SmokeOf(prefix, b, o, v) ==
    {i \in Indices : \E c \in Channels :
                     /\ JobKey(w[i]) = "smoke_test_" \o o \o "_" \o c
                     /\ NameAt(i) = TripleName(prefix, b, o, v) \o "_smoke_test_" \o c}

\* the test descriptors of unittest_workflows
TestOf(o, d, v) ==
    {i \in Indices : /\ JobKey(w[i]) = "unittest_" \o o \o "_" \o d
                     /\ Body(w[i]).python_version = v}

IsTest(i) == SubSeq(JobKey(w[i]), 1, 9) = "unittest_"

\* the caller asked for a branch filter: filter_branch names a branch
FilterRequested == call.filter_branch # None /\ call.filter_branch[1] # ""

---------------------------------------------------------------------------
(* C1: the list build_workflows builds holds, for each (package type, OS,  *)
(* python version) triple, exactly one base descriptor, named              *)
(* prefix + "binary_" + OS + "_" + package type + "_py" + python version.  *)
C1_OneBasePerTriple ==
    call.fn = "build_workflows" =>
        \A b \in PackageTypes, o \in OperatingSystems, v \in PyVersions :
            /\ Cardinality(BaseOf(b, o, v)) = 1
            /\ \A i \in BaseOf(b, o, v) :
                   NameAt(i) = call.prefix \o "binary_" \o o \o "_" \o b \o "_py" \o v

C1_Witness ==
    /\ call.fn = "build_workflows"
    /\ call.prefix = "nightly_"
    /\ call.upload
    /\ \E i \in Indices : NameAt(i) = "nightly_binary_macos_conda_py3.8"

(* C2: in the list build_workflows builds, every upload descriptor         *)
(* requires exactly the name of the base descriptor of its triple, and     *)
(* every smoke-test descriptor requires exactly the name of the upload     *)
(* descriptor of its triple.                                               *)
C2_Chaining ==
    call.fn = "build_workflows" =>
        /\ \A i \in Indices :
              /\ IsUpload(i) => \E b \in PackageTypes, o \in OperatingSystems,
                                   v \in PyVersions : i \in UploadOf(call.prefix, b, o, v)
              /\ IsSmoke(i) => \E b \in PackageTypes, o \in OperatingSystems,
                                  v \in PyVersions : i \in SmokeOf(call.prefix, b, o, v)
        /\ \A b \in PackageTypes, o \in OperatingSystems, v \in PyVersions :
              /\ \A i \in UploadOf(call.prefix, b, o, v) :
                    \E j \in BaseOf(b, o, v) :
                        Body(w[i]).requires = << NameAt(j) >>
              /\ \A i \in SmokeOf(call.prefix, b, o, v) :
                    \E j \in UploadOf(call.prefix, b, o, v) :
                        Body(w[i]).requires = << NameAt(j) >>

C2_Witness ==
    /\ call.fn = "build_workflows"
    /\ call.upload
    /\ \E i, j \in Indices :
          /\ IsUpload(i) /\ Body(w[i]).requires = <<"binary_linux_wheel_py3.7">>
          /\ IsSmoke(j)
          /\ Body(w[j]).requires = <<"binary_linux_wheel_py3.7_upload">>

(* C3: in the list build_workflows builds, every descriptor (download      *)
(* prerequisite, base, upload, smoke test) has a filters field when the    *)
(* caller asked for a branch filter, and none has one when it did not.     *)
C3_FiltersIffRequested ==
    call.fn = "build_workflows" =>
        \A i \in Indices :
            /\ IsDownload(i) \/ IsBase(i) \/ IsUpload(i) \/ IsSmoke(i)
            /\ HasField(i, "filters") <=> FilterRequested

C3_Witness ==
    /\ call.fn = "build_workflows"
    /\ call.filter_branch = <<"master">>
    /\ call.upload
    /\ \A i \in Indices : HasField(i, "filters")
    /\ \E i \in Indices : IsUpload(i)

(* C4: no two descriptors of one built list share a name, in the list of   *)
(* build_workflows and in the list of unittest_workflows.                  *)
C4_UniqueNames ==
    call.fn \in {"build_workflows", "unittest_workflows"} =>
        \A i, j \in Indices : i # j => NameAt(i) # NameAt(j)

C4_Witness ==
    /\ call.fn = "build_workflows"
    /\ call.upload
    /\ call.filter_branch = <<"nightly">>
    /\ Len(w) > 1 + 18 * 2

(* C5: build_workflow_pair emits a smoke test if and only if upload is     *)
(* true, filter_branch is "nightly", the OS is linux or windows and the    *)
(* python version does not start with "2."; then the list is base, upload, *)
(* smoke test, the channel is pip for wheel and conda for conda, and the   *)
(* smoke test's name is the base name + "_smoke_test_" + channel.  With    *)
(* upload and no smoke test the list is exactly base, upload.              *)
C5_SmokeTestRule ==
    call.fn = "build_workflow_pair" =>
        LET base  == TripleName(call.prefix, call.btype, call.os_type,
                                call.python_version)
            due   == /\ call.upload
                     /\ call.filter_branch = <<"nightly">>
                     /\ call.os_type \in {"linux", "windows"}
                     /\ SubSeq(call.python_version, 1, 2) # "2."
            isSmoke(i) == SubSeq(JobKey(w[i]), 1, 11) = "smoke_test_"
        IN  /\ (\E i \in Indices : isSmoke(i)) <=> due
            /\ JobKey(w[1]) = "binary_" \o call.os_type \o "_" \o call.btype
            /\ NameAt(1) = base
            /\ ~call.upload => Len(w) = 1
            /\ call.upload =>
                  /\ JobKey(w[2]) = "binary_" \o call.btype \o "_upload"
                  /\ NameAt(2) = base \o "_upload"
            /\ call.upload /\ ~due => Len(w) = 2
            /\ due =>
                  /\ Len(w) = 3
                  /\ \E c \in Channels :
                        /\ call.btype = "wheel" => c = "pip"
                        /\ call.btype = "conda" => c = "conda"
                        /\ JobKey(w[3]) = "smoke_test_" \o call.os_type \o "_" \o c
                        /\ NameAt(3) = base \o "_smoke_test_" \o c

C5_Witness ==
    /\ call.fn = "build_workflow_pair"
    /\ call.upload /\ call.filter_branch = <<"nightly">>
    /\ call.btype = "wheel" /\ call.os_type = "windows" /\ call.python_version = "3.7"
    /\ Len(w) = 3
    /\ NameAt(3) = call.prefix \o "binary_windows_wheel_py3.7_smoke_test_pip"

(* C6 as stated: unittest_workflows builds exactly one test descriptor for *)
(* each (OS, device type, python version) with OS in {linux, macos,        *)
(* windows}, named "unittest_" + OS + "_" + device type + "_py" + version. *)
C6_AsStated ==
    call.fn = "unittest_workflows" =>
        \A o \in {"linux", "macos", "windows"}, d \in {"cpu", "gpu"}, v \in PyVersions :
            /\ Cardinality(TestOf(o, d, v)) = 1
            /\ \A i \in TestOf(o, d, v) :
                   NameAt(i) = "unittest_" \o o \o "_" \o d \o "_py" \o v

(* C6 amended: unittest_workflows builds exactly one test descriptor for   *)
(* each (OS, device type, python version) with OS in {linux, windows},     *)
(* device type in {cpu, gpu} and version in PYTHON_VERSIONS, named         *)
(* "unittest_" + OS + "_" + device type + "_py" + version; it builds no    *)
(* test descriptor for macos.                                              *)
C6_OneTestPerTriple ==
    call.fn = "unittest_workflows" =>
        /\ \A o \in {"linux", "windows"}, d \in {"cpu", "gpu"}, v \in PyVersions :
              /\ Cardinality(TestOf(o, d, v)) = 1
              /\ \A i \in TestOf(o, d, v) :
                     NameAt(i) = "unittest_" \o o \o "_" \o d \o "_py" \o v
        /\ \A i \in Indices :
              IsTest(i) => \E o \in {"linux", "windows"}, d \in {"cpu", "gpu"},
                              v \in PyVersions : i \in TestOf(o, d, v)

C6_Witness ==
    /\ call.fn = "unittest_workflows"
    /\ \E i \in Indices : NameAt(i) = "unittest_windows_gpu_py3.8"
    /\ Cardinality({i \in Indices : IsTest(i)}) = 12

(* C7 as stated: given a package type outside {wheel, conda} or an OS      *)
(* outside {linux, macos, windows}, build_workflow_pair and                *)
(* generate_base_workflow abort with an error and emit no descriptor.      *)
C7_AbortsOnUnrecognized ==
    ( /\ call.fn \in {"build_workflow_pair", "generate_base_workflow"}
      /\ \/ call.btype \notin PackageTypes
         \/ call.os_type \notin OperatingSystems )
    => (raised /\ w = <<>>)

(* C8: in the lists of build_workflows and unittest_workflows, a base or   *)
(* test descriptor requires exactly ["download_third_parties_nix"] when    *)
(* its OS is not windows, and has no requires field when it is windows.    *)
C8_NixDownloadRequired ==
    call.fn \in {"build_workflows", "unittest_workflows"} =>
        \A i \in Indices, o \in OperatingSystems :
            ( \/ \E b \in PackageTypes : JobKey(w[i]) = "binary_" \o o \o "_" \o b
              \/ \E d \in {"cpu", "gpu"} : JobKey(w[i]) = "unittest_" \o o \o "_" \o d )
            => IF o # "windows"
               THEN /\ HasField(i, "requires")
                    /\ Body(w[i]).requires = <<"download_third_parties_nix">>
               ELSE ~HasField(i, "requires")

C8_Witness ==
    /\ call.fn = "build_workflows"
    /\ \E i, j \in Indices :
          /\ JobKey(w[i]) = "binary_macos_conda"
          /\ Body(w[i]).requires = <<"download_third_parties_nix">>
          /\ JobKey(w[j]) = "binary_windows_conda"
          /\ ~HasField(j, "requires")

(* C9: in the list of unittest_workflows a test descriptor has a filters   *)
(* field if and only if its device type is gpu, and that filter is         *)
(* branches [master, nightly] with the release-candidate tag pattern; the  *)
(* tag pattern of every filter gen_filter_branch_tree builds is that same  *)
(* constant, whatever branch names are passed.                             *)
C9_GpuFilter ==
    /\ call.fn = "unittest_workflows" =>
          \A i \in Indices, o \in OperatingSystems, d \in {"cpu", "gpu"} :
              JobKey(w[i]) = "unittest_" \o o \o "_" \o d =>
                  /\ HasField(i, "filters") <=> d = "gpu"
                  /\ d = "gpu" =>
                        Body(w[i]).filters =
                            [branches |-> [only |-> <<"master", "nightly">>],
                             tags |-> [only |-> "/v[0-9]+(\\.[0-9]+)*-rc[0-9]+/"]]
    /\ call.fn = "gen_filter_branch_tree" =>
          /\ tree.branches.only = call.branches
          /\ tree.tags.only = "/v[0-9]+(\\.[0-9]+)*-rc[0-9]+/"
    /\ \A i \in Indices :
          HasField(i, "filters") =>
              Body(w[i]).filters.tags.only = "/v[0-9]+(\\.[0-9]+)*-rc[0-9]+/"

C9_Witness ==
    /\ call.fn = "unittest_workflows"
    /\ \E i, j \in Indices :
          /\ JobKey(w[i]) = "unittest_linux_gpu"
          /\ Body(w[i]).filters.branches.only = <<"master", "nightly">>
          /\ JobKey(w[j]) = "unittest_linux_cpu"
          /\ ~HasField(j, "filters")

(* C10: in the lists of build_workflows and unittest_workflows, every name *)
(* a descriptor requires is the name of a descriptor standing strictly     *)
(* earlier in the list; the download prerequisite is the first element and *)
(* occurs exactly once.                                                    *)
C10_RequiresEarlier ==
    call.fn \in {"build_workflows", "unittest_workflows"} =>
        /\ \A i \in Indices :
              HasField(i, "requires") =>
                  \A r \in 1..Len(Body(w[i]).requires) :
                      \E j \in 1..(i - 1) : NameAt(j) = Body(w[i]).requires[r]
        /\ IsDownload(1)
        /\ NameAt(1) = "download_third_parties_nix"
        /\ Cardinality({i \in Indices :
                            IsDownload(i) \/ NameAt(i) = "download_third_parties_nix"}) = 1

C10_Witness ==
    /\ call.fn = "build_workflows"
    /\ call.upload /\ call.filter_branch = <<"nightly">>
    /\ \E i, j, k \in Indices :
          /\ i < j /\ j < k
          /\ IsBase(i) /\ IsUpload(j) /\ IsSmoke(k)
          /\ Body(w[i]).requires = << NameAt(1) >>
          /\ Body(w[j]).requires = << NameAt(i) >>
          /\ Body(w[k]).requires = << NameAt(j) >>

==========================================================================
